---- MODULE Spec2Model ----
(***************************************************************************)
(* A model of the futapp ETL pipeline (main.py, src/transform.py,          *)
(* src/normalize_utils.py, src/fbref_extractor.py,                         *)
(* src/understat_extractor.py).                                            *)
(*                                                                         *)
(* Text is modelled as a sequence of characters, each character a string   *)
(* token.  ASCII characters are their own token; a non-ASCII character is  *)
(* named by its code point ("U+00E9" is e-acute).  A DataFrame is a        *)
(* sequence of rows, each row a record whose fields are the columns; a     *)
(* missing value (None / NaN) is the token NaN.                            *)
(***************************************************************************)
EXTENDS Integers, Sequences, FiniteSets, TLC

VARIABLES
    name1, name2,          \* two raw names taken from a provider extract
    name_std,              \* name1 after one, and after two, standardize_name calls
    teams_df, players_df,  \* the team and player catalogs
    start_year,            \* the first calendar year of a football season
    season_fmt,            \* the format a provider reports that season in
    season,                \* the season value as the provider reports it
    season_start_year,     \* the start year the season resolver returns
    df_player_stats_fb,    \* the FBref player extract
    df_player_stats_us,    \* the Understat player extract
    player_season_df,      \* the player-season fact table
    pc,                    \* the position of main()
    cfg_ids,               \* the providers the configured league has an id for
    unit_k,                \* the (league, season) unit an FBref loop is at
    all_tables,            \* the frames an FBref loop has collected
    fetch_log,             \* per endpoint, the outcome of every unit's fetch
    df_team_stats,         \* the FBref team extract
    team_season_df,        \* the team-season table
    tables,                \* the dict of output tables
    write_queue,           \* the files still to be written, in order
    files,                 \* the files on disk, by name
    write_faults,          \* how many to_csv calls have failed
    raised                 \* the exception that escaped main(), if any

nameVars == <<name1, name2, name_std>>

catalogVars == <<teams_df, players_df>>

seasonVars == <<start_year, season_fmt, season, season_start_year>>

factVars == <<df_player_stats_fb, df_player_stats_us, player_season_df>>

runVars == <<pc, cfg_ids, unit_k, all_tables, fetch_log, df_team_stats, team_season_df,
             tables, write_queue, files, write_faults, raised>>

vars == <<nameVars, catalogVars, seasonVars, factVars, runVars>>

-----------------------------------------------------------------------------
(* Characters                                                              *)

az == <<"a","b","c","d","e","f","g","h","i","j","k","l","m",
        "n","o","p","q","r","s","t","u","v","w","x","y","z">>

AZ == <<"A","B","C","D","E","F","G","H","I","J","K","L","M",
        "N","O","P","Q","R","S","T","U","V","W","X","Y","Z">>

DigitChars == <<"0","1","2","3","4","5","6","7","8","9">>

Range(s) == {s[i] : i \in DOMAIN s}

IndexOf(s, c) == CHOOSE i \in DOMAIN s : s[i] = c

\* Lower-case letters outside ASCII that have a one-code-point capital:
\* a-acute, c-cedilla, e-acute, i-acute, o-umlaut, u-acute, u-umlaut, g-breve,
\* s-cedilla; and their capitals, in the same order.
NonAsciiLower == <<"U+00E1","U+00E7","U+00E9","U+00ED","U+00F6",
                   "U+00FA","U+00FC","U+011F","U+015F">>

NonAsciiUpper == <<"U+00C1","U+00C7","U+00C9","U+00CD","U+00D6",
                   "U+00DA","U+00DC","U+011E","U+015E">>

\* Dotless i: a lower-case letter whose capital is the ASCII "I".
DotlessI == "U+0131"

AsciiUpperSet == Range(AZ)

NonAsciiUpperSet == Range(NonAsciiUpper)

\* The characters of the regex class [a-z0-9].
AsciiLowerAlnumSet == Range(az) \cup Range(DigitChars)

\* Unicode letters and digits.
AlnumSet ==
    AsciiLowerAlnumSet \cup AsciiUpperSet \cup Range(NonAsciiLower)
        \cup NonAsciiUpperSet \cup {DotlessI}

\* str.lower() on one character.
PyLower(c) ==
    IF c \in AsciiUpperSet THEN az[IndexOf(AZ, c)]
    ELSE IF c \in NonAsciiUpperSet THEN NonAsciiLower[IndexOf(NonAsciiUpper, c)]
    ELSE c

\* str.isalnum() on one character.
PyIsAlnum(c) == c \in AlnumSet

\* Whitespace as str.strip(), str.split() and the regex class \s see it.
PyIsSpace(c) == c \in {" ", "\t"}

\* The replacement table shared by _slug, standardize_name and make_league_id.
TrFold(c) ==
    CASE c = DotlessI -> "i"
      [] c = "U+011F" -> "g"
      [] c = "U+015F" -> "s"
      [] c = "U+00F6" -> "o"
      [] c = "U+00FC" -> "u"
      [] c = "U+00E7" -> "c"
      [] OTHER -> c

\* str.lower()
LowerAll(s) == [i \in DOMAIN s |-> PyLower(s[i])]

\* The chain of str.replace calls of the replacement table.
FoldAll(s) == [i \in DOMAIN s |-> TrFold(s[i])]

RECURSIVE LStrip(_)
LStrip(s) == IF s # <<>> /\ PyIsSpace(Head(s)) THEN LStrip(Tail(s)) ELSE s

RECURSIVE RStrip(_)
RStrip(s) ==
    IF s # <<>> /\ PyIsSpace(s[Len(s)]) THEN RStrip(SubSeq(s, 1, Len(s) - 1)) ELSE s

\* str.strip()
Strip(s) == RStrip(LStrip(s))

\* re.sub(r"\s+", " ", s)
RECURSIVE CollapseWs(_)
CollapseWs(s) ==
    IF s = <<>> THEN <<>>
    ELSE IF PyIsSpace(Head(s)) THEN <<" ">> \o CollapseWs(LStrip(s))
    ELSE <<Head(s)>> \o CollapseWs(Tail(s))

\* "".join(chars)
RECURSIVE Join(_)
Join(s) == IF s = <<>> THEN "" ELSE Head(s) \o Join(Tail(s))

-----------------------------------------------------------------------------
(* src/transform.py: _slug, _stable_id                                     *)

SpaceToUnderscore(c) == IF c = " " THEN "_" ELSE c

_slug(s) ==
    LET s1 == LowerAll(Strip(s))
        s2 == FoldAll(s1)
        s3 == CollapseWs(s2)
        s4 == Strip(SelectSeq(s3, LAMBDA c : c \in AsciiLowerAlnumSet \cup {" "}))
    IN  [i \in DOMAIN s4 |-> SpaceToUnderscore(s4[i])]

\* hashlib.md5(key).hexdigest()[:12], taken as an injective digest of the key.
Md5Hex12(key) == "md5(" \o Join(key) \o ")"

_stable_id(prefix, key) == prefix \o "_" \o Md5Hex12(key)

-----------------------------------------------------------------------------
(* src/normalize_utils.py: standardize_name                                *)

\* A mutant of standardize_name: the replacement table is applied before
\* lower().
standardize_name_fold_first(name) ==
    LET n1 == FoldAll(name)
        n2 == LowerAll(n1)
        n3 == SelectSeq(n2, LAMBDA c : PyIsAlnum(c) \/ c = " ")
    IN  Strip(CollapseWs(n3))

standardize_name(name) ==
    LET n1 == LowerAll(name)
        n2 == FoldAll(n1)
        n3 == SelectSeq(n2, LAMBDA c : PyIsAlnum(c) \/ c = " ")
    IN  Strip(CollapseWs(n3))

-----------------------------------------------------------------------------
(* Names that occur in the extracts                                        *)

JoseAccented == <<"J","o","s","U+00E9"," ","M","a","r","t","U+00ED","n","e","z">>

JosePlain == <<"J","o","s","e"," ","M","a","r","t","i","n","e","z">>

RaulGarcia == <<"R","a","U+00FA","l"," ","G","a","r","c","U+00ED","a">>

Arsenal == <<"A","r","s","e","n","a","l">>

Chelsea == <<"C","h","e","l","s","e","a">>

-----------------------------------------------------------------------------
(* DataFrames                                                              *)

\* A missing cell of a column of identifiers (None / NaN).
NaN == "NaN"

\* pd.DataFrame(columns=cols) with the given rows.
Df(cols, rows) == [cols |-> cols, rows |-> rows]

\* pd.DataFrame()
NoFrame == Df(<<>>, <<>>)

\* DataFrame.empty
IsEmpty(df) == df.rows = <<>> \/ df.cols = <<>>

\* The column of a frame as a sequence of cells.
Column(df, col) == [i \in DOMAIN df.rows |-> df.rows[i][col]]

\* No column chosen.
None == "None"

_pick_col(df, candidates) ==
    IF IsEmpty(df) THEN None
    ELSE LET hits == {i \in DOMAIN candidates : candidates[i] \in Range(df.cols)}
         IN  IF hits = {} THEN None
             ELSE candidates[CHOOSE i \in hits : \A j \in hits : i <= j]

\* Series.drop_duplicates(): the first occurrence of every value, in order.
RECURSIVE DropDuplicates(_)
DropDuplicates(cells) ==
    IF cells = <<>> THEN <<>>
    ELSE LET init == DropDuplicates(SubSeq(cells, 1, Len(cells) - 1))
             last == cells[Len(cells)]
         IN  IF last \in Range(init) THEN init ELSE Append(init, last)

-----------------------------------------------------------------------------
(* src/transform.py: the catalog builders                                  *)

TeamCols == <<"id", "name", "country">>

PlayerCols == <<"id", "name", "birth_date", "nationality", "position">>

\* A mutant of TeamIdOf: the id is taken from a row counter.
TeamIdOfCounter(names, i) == _stable_id("TEAM", <<DigitChars[i]>>)

\* teams["name"].apply(lambda x: _stable_id("TEAM", _slug(str(x)))), row i.
TeamIdOf(names, i) == _stable_id("TEAM", _slug(names[i]))

\* base["name"].apply(lambda x: _stable_id("PLAYER", _slug(str(x)))), row i.
PlayerIdOf(names, i) == _stable_id("PLAYER", _slug(names[i]))

TeamRows(names) ==
    [i \in DOMAIN names |->
        [id |-> TeamIdOf(names, i), name |-> names[i], country |-> ""]]

\* The first row of the extract that carries the name (drop_duplicates keeps it).
FirstRowWith(df, col, name) ==
    df.rows[CHOOSE i \in DOMAIN df.rows :
                /\ df.rows[i][col] = name
                /\ \A j \in 1..(i - 1) : df.rows[j][col] # name]

PlayerRows(df, player_col, pos_col) ==
    LET names == DropDuplicates(Column(df, player_col))
    IN  [i \in DOMAIN names |->
            [id |-> PlayerIdOf(names, i), name |-> names[i],
             birth_date |-> "", nationality |-> "",
             position |-> IF pos_col = None THEN ""
                          ELSE FirstRowWith(df, player_col, names[i])[pos_col]]]

build_teams_from_fbref(df_team_stats_) ==
    IF IsEmpty(df_team_stats_) THEN Df(TeamCols, <<>>)
    ELSE LET squad_col == _pick_col(df_team_stats_, <<"squad", "team", "squad_name">>)
         IN  IF squad_col = None THEN Df(TeamCols, <<>>)
             ELSE Df(TeamCols, TeamRows(DropDuplicates(Column(df_team_stats_, squad_col))))

build_players_from_fbref(df_player_stats) ==
    IF IsEmpty(df_player_stats) THEN Df(PlayerCols, <<>>)
    ELSE LET player_col == _pick_col(df_player_stats, <<"player", "player_name", "name">>)
             pos_col == _pick_col(df_player_stats, <<"position", "pos">>)
         IN  IF player_col = None THEN Df(PlayerCols, <<>>)
             ELSE Df(PlayerCols, PlayerRows(df_player_stats, player_col, pos_col))

build_teams_from_understat(df_us) ==
    IF IsEmpty(df_us) THEN Df(TeamCols, <<>>)
    ELSE IF "team" \notin Range(df_us.cols) THEN Df(TeamCols, <<>>)
    ELSE Df(TeamCols, TeamRows(DropDuplicates(Column(df_us, "team"))))

build_players_from_understat(df_us) ==
    IF IsEmpty(df_us) THEN Df(PlayerCols, <<>>)
    ELSE IF "player" \notin Range(df_us.cols) THEN Df(PlayerCols, <<>>)
    ELSE Df(PlayerCols,
            PlayerRows(df_us, "player",
                       IF "position" \in Range(df_us.cols) THEN "position" ELSE None))

-----------------------------------------------------------------------------
(* main.py: league and season identifiers, the season resolver             *)

\* An absent integer (None) and a present one.
Absent == {}

Some(n) == {n}

ValueOf(opt) == CHOOSE n \in opt : TRUE

\* int(s) for a string of decimal digits.
RECURSIVE IntOf(_)
IntOf(s) ==
    IF s = <<>> THEN 0
    ELSE 10 * IntOf(SubSeq(s, 1, Len(s) - 1)) + (IndexOf(DigitChars, s[Len(s)]) - 1)

AllDigits(s) == \A i \in DOMAIN s : s[i] \in Range(DigitChars)

\* The positions where a run of four digits starts.
FourDigitRuns(s) ==
    {i \in 1..(Len(s) - 3) : AllDigits(SubSeq(s, i, i + 3))}

\* re.search(r"(\d{4})", s): the leftmost run of four digits, as an integer.
SearchYear(s) ==
    IF FourDigitRuns(s) = {} THEN Absent
    ELSE LET i == CHOOSE k \in FourDigitRuns(s) : \A j \in FourDigitRuns(s) : k <= j
         IN  Some(IntOf(SubSeq(s, i, i + 3)))

\* A mutant of CenturyBase: every two-digit year is put in the 2000s.
CenturyBaseNoPivot(yy) == 2000

\* base = 2000 if yy < 50 else 1900
CenturyBase(yy) == IF yy < 50 THEN 2000 ELSE 1900

parse_understat_season_start_year(val) ==
    LET s == Strip(val)
    IN  IF Len(s) = 4 /\ AllDigits(s)
        THEN LET yy == IntOf(SubSeq(s, 1, 2)) IN Some(CenturyBase(yy) + yy)
        ELSE SearchYear(s)

\* str(n) for n >= 0, as characters.
RECURSIVE DigitsOf(_)
DigitsOf(n) ==
    IF n < 10 THEN <<DigitChars[n + 1]>>
    ELSE Append(DigitsOf(n \div 10), DigitChars[(n % 10) + 1])

\* The compact 4-digit season code of a start year: the last two digits of
\* the start year, then the last two digits of the year after.
CompactCode(y) ==
    LET TwoDigits(n) == <<DigitChars[(n \div 10) + 1], DigitChars[(n % 10) + 1]>>
    IN  TwoDigits(y % 100) \o TwoDigits((y + 1) % 100)

\* The span form of a season, "2019-2020".
SpanCode(y) == DigitsOf(y) \o <<"-">> \o DigitsOf(y + 1)

\* The bare calendar year, "2019".
YearCode(y) == DigitsOf(y)

-----------------------------------------------------------------------------
(* src/transform.py: build_player_season_stats                             *)

FactCols == <<"player_id", "team_id", "season_id", "minutes", "goals", "xg", "assists">>

\* dict(zip(df["name"], df["id"])).get(name): the id of the last catalog row
\* with that name, NaN when there is none (Series.map on a miss).
MapGet(catalog, name) ==
    LET hits == {i \in DOMAIN catalog.rows : catalog.rows[i].name = name}
    IN  IF hits = {} THEN NaN
        ELSE catalog.rows[CHOOSE i \in hits : \A j \in hits : j <= i].id

\* _to_year: re.match(r"(\d{4})", str(x)), anchored at the start.
_to_year(x) ==
    IF Len(x) >= 4 /\ AllDigits(SubSeq(x, 1, 4)) THEN Some(IntOf(SubSeq(x, 1, 4)))
    ELSE Absent

\* tmp[season_col].apply(_to_year): the years of the rows.
SeasonYears(df, season_col) ==
    [i \in DOMAIN df.rows |->
        IF season_col = None THEN Absent ELSE _to_year(df.rows[i][season_col])]

\* str(tmp["_season_year"].iloc[i]) if tmp["_season_year"].iloc[i] else ""
\* None and 0 are falsy, NaN is truthy; a float prints with ".0".  The dtype
\* pandas gives the _season_year column: all None stays object, all integers
\* is int64, integers mixed with None become float64 with NaN.
SeasonIdCell(years, i) ==
    LET dtype == IF \A k \in DOMAIN years : years[k] = Absent THEN "object"
                 ELSE IF \E k \in DOMAIN years : years[k] = Absent THEN "float64"
                 ELSE "int64"
    IN  IF years[i] = Absent THEN (IF dtype = "float64" THEN "nan" ELSE "")
        ELSE IF ValueOf(years[i]) = 0 THEN ""
        ELSE IF dtype = "float64" THEN Join(DigitsOf(ValueOf(years[i]))) \o ".0"
        ELSE Join(DigitsOf(ValueOf(years[i])))

\* tmp["_tname"].map(teams_map) if teams_map else "", then
\* v if isinstance(v, str) else (v or ""): NaN is truthy and stays NaN.
TeamIdCell(teams_df_, tname) ==
    IF IsEmpty(teams_df_) THEN "" ELSE MapGet(teams_df_, tname)

\* A mutant of _as_int: a cell that holds no number becomes -1.
_as_int_sentinel(cell) == IF cell = Absent THEN -1 ELSE ValueOf(cell)

\* pd.to_numeric(s, errors="coerce").fillna(0).astype(int) on one cell.
\* A numeric cell is Some(n), or Absent when it holds no number.
_as_int(cell) == IF cell = Absent THEN 0 ELSE ValueOf(cell)

\* pd.to_numeric(s, errors="coerce").fillna(0.0).astype(float) on one cell;
\* a float is counted in tenths.
_as_float(cell) == IF cell = Absent THEN 0 ELSE ValueOf(cell)

\* The cell of an optional column: "" (a name) when the column is absent.
NameCell(row, col) == IF col = None THEN <<>> ELSE row[col]

\* The cell of an optional numeric column: 0 when the column is absent.
IntCell(row, col) == IF col = None THEN 0 ELSE _as_int(row[col])

FloatCell(row, col) == IF col = None THEN 0 ELSE _as_float(row[col])

\* The rows one source contributes (the loop over range(len(tmp))): a row
\* whose player is not in the catalog is skipped.
ProjectRows(df, players_df_, teams_df_, pcol, tcol, min_col, g_col, a_col, xg_col, season_col) ==
    LET years == SeasonYears(df, season_col)
        kept == SelectSeq([i \in DOMAIN df.rows |-> i],
                          LAMBDA i : MapGet(players_df_, NameCell(df.rows[i], pcol)) # NaN)
    IN  [k \in DOMAIN kept |->
            LET i == kept[k]
                r == df.rows[i]
            IN  [player_id |-> MapGet(players_df_, NameCell(r, pcol)),
                 team_id |-> TeamIdCell(teams_df_, NameCell(r, tcol)),
                 season_id |-> SeasonIdCell(years, i),
                 minutes |-> IntCell(r, min_col),
                 goals |-> IntCell(r, g_col),
                 assists |-> IntCell(r, a_col),
                 xg |-> FloatCell(r, xg_col)]]

\* "x" if "x" in df.columns else _pick_col(df, candidates)
ColOrPick(df, col, candidates) ==
    IF col \in Range(df.cols) THEN col ELSE _pick_col(df, candidates)

ProjectFbref(df_fb, players_df_, teams_df_) ==
    IF IsEmpty(df_fb) THEN <<>>
    ELSE ProjectRows(df_fb, players_df_, teams_df_,
                     _pick_col(df_fb, <<"player", "player_name", "name">>),
                     _pick_col(df_fb, <<"squad", "team">>),
                     _pick_col(df_fb, <<"minutes", "min">>),
                     _pick_col(df_fb, <<"goals", "gls">>),
                     _pick_col(df_fb, <<"assists", "ast">>),
                     None,
                     _pick_col(df_fb, <<"season", "season_id", "year">>))

ProjectUnderstat(df_us, players_df_, teams_df_) ==
    IF IsEmpty(df_us) THEN <<>>
    ELSE ProjectRows(df_us, players_df_, teams_df_,
                     ColOrPick(df_us, "player", <<"player_name", "name">>),
                     ColOrPick(df_us, "team", <<"squad", "team">>),
                     ColOrPick(df_us, "minutes", <<"min">>),
                     ColOrPick(df_us, "goals", <<"gls">>),
                     ColOrPick(df_us, "assists", <<"ast">>),
                     ColOrPick(df_us, "xg", <<"xg_per90", "expected_goals">>),
                     ColOrPick(df_us, "season", <<"season_id", "year">>))

\* The list "rows" before the grouping.
ProjectedRows(df_fb, df_us, players_df_, teams_df_) ==
    IF IsEmpty(df_fb) /\ IsEmpty(df_us) THEN <<>>
    ELSE IF IsEmpty(players_df_) THEN <<>>
    ELSE ProjectFbref(df_fb, players_df_, teams_df_)
             \o ProjectUnderstat(df_us, players_df_, teams_df_)

KeyOf(row) == <<row.player_id, row.team_id, row.season_id>>

\* agg(field=(field, "max")) for one group.
Aggregate(rows, key, field) ==
    LET values == {rows[i][field] : i \in {k \in DOMAIN rows : KeyOf(rows[k]) = key}}
    IN  CHOOSE n \in values : \A m \in values : m <= n

\* groupby(["player_id", "team_id", "season_id"]).agg(max): one row per key;
\* a group whose key holds NaN is dropped (groupby's dropna=True).  pandas
\* sorts the groups by key; the model keeps them in order of first appearance.
GroupByMax(rows) ==
    LET keys == DropDuplicates([i \in DOMAIN rows |-> KeyOf(rows[i])])
        live == SelectSeq(keys, LAMBDA k : k[1] # NaN /\ k[2] # NaN /\ k[3] # NaN)
    IN  [g \in DOMAIN live |->
            [player_id |-> live[g][1], team_id |-> live[g][2], season_id |-> live[g][3],
             minutes |-> Aggregate(rows, live[g], "minutes"),
             goals |-> Aggregate(rows, live[g], "goals"),
             assists |-> Aggregate(rows, live[g], "assists"),
             xg |-> Aggregate(rows, live[g], "xg")]]

build_player_season_stats(df_fb, df_us, players_df_, teams_df_) ==
    Df(FactCols, GroupByMax(ProjectedRows(df_fb, df_us, players_df_, teams_df_)))

-----------------------------------------------------------------------------
(* src/transform.py: build_team_season_from_fbref                          *)

TeamSeasonCols == <<"team_id", "season_id", "points", "rank">>

build_team_season_from_fbref(df_team_stats_, teams_df_) ==
    IF IsEmpty(df_team_stats_) \/ IsEmpty(teams_df_) THEN Df(TeamSeasonCols, <<>>)
    ELSE LET squad_col == _pick_col(df_team_stats_, <<"squad", "team", "squad_name">>)
             pts_col == _pick_col(df_team_stats_, <<"points", "pts">>)
             rk_col == _pick_col(df_team_stats_, <<"rank", "rnk", "position">>)
             season_col == _pick_col(df_team_stats_, <<"season", "season_id", "year">>)
             years == SeasonYears(df_team_stats_, season_col)
             kept == SelectSeq([i \in DOMAIN df_team_stats_.rows |-> i],
                               LAMBDA i : squad_col # None /\
                                   MapGet(teams_df_, df_team_stats_.rows[i][squad_col]) # NaN)
         IN  IF squad_col = None THEN Df(TeamSeasonCols, <<>>)
             ELSE Df(TeamSeasonCols,
                     [k \in DOMAIN kept |->
                         LET r == df_team_stats_.rows[kept[k]]
                         IN  [team_id |-> MapGet(teams_df_, r[squad_col]),
                              season_id |-> SeasonIdCell(years, kept[k]),
                              points |-> IntCell(r, pts_col),
                              rank |-> IntCell(r, rk_col)]])

-----------------------------------------------------------------------------
(* main.py: configuration, identifiers, the empty schema                   *)

\* The configured league: country_code, league_name, level.
PremierLeague ==
    [country_code |-> "ENG",
     league_name |-> <<"P","r","e","m","i","e","r"," ","L","e","a","g","u","e">>,
     level |-> 1]

\* The identifier both providers know the league by.
ProviderLeagueId == "ENG-Premier League"

Sources == <<"fbref", "understat">>

make_league_id(country_code, league_name, level) ==
    LET s1 == FoldAll(LowerAll(league_name))
        \* ch if (ch.isalnum() or ch == " ") else " "
        s2 == [i \in DOMAIN s1 |-> IF PyIsAlnum(s1[i]) \/ s1[i] = " " THEN s1[i] ELSE " "]
        s3 == Strip(CollapseWs(s2))
        safe == [i \in DOMAIN s3 |-> SpaceToUnderscore(s3[i])]
    IN  country_code \o "_" \o ToString(level) \o "_" \o Join(safe)

make_season_id(league_id, year) ==
    league_id \o "__" \o ToString(year) \o "_" \o ToString(year + 1)

make_season_label(year) == ToString(year) \o "/" \o ToString(year + 1)

LeagueCols == <<"id", "name", "country", "level">>

SeasonCols == <<"id", "league_id", "season_start_year", "season_label">>

MatchCols == <<"id", "season_id", "home_team_id", "away_team_id", "date",
               "home_goals", "away_goals">>

SourceEntityMapCols ==
    <<"entity_type", "source", "source_id", "canonical_id", "source_name",
      "season_id", "confidence", "match_method", "fetched_at">>

\* The tables of the schema, in the order of the dict.
TableNames == <<"leagues", "seasons", "teams", "players", "team_season",
                "player_season_stats", "matches", "source_entity_map">>

normalized_empty_tables_v1 ==
    [t \in Range(TableNames) |->
        CASE t = "leagues" -> Df(LeagueCols, <<>>)
          [] t = "seasons" -> Df(SeasonCols, <<>>)
          [] t = "teams" -> Df(TeamCols, <<>>)
          [] t = "players" -> Df(PlayerCols, <<>>)
          [] t = "team_season" -> Df(TeamSeasonCols, <<>>)
          [] t = "player_season_stats" -> Df(FactCols, <<>>)
          [] t = "matches" -> Df(MatchCols, <<>>)
          [] t = "source_entity_map" -> Df(SourceEntityMapCols, <<>>)]

\* pd.DataFrame(rows) of a list of dicts: no columns when the list is empty.
FrameOfRows(cols, rows) == IF rows = <<>> THEN NoFrame ELSE Df(cols, rows)

build_leagues_table(cfg_leagues) ==
    FrameOfRows(LeagueCols,
        [i \in DOMAIN cfg_leagues |->
            LET l == cfg_leagues[i]
            IN  [id |-> make_league_id(l.country_code, l.league_name, l.level),
                 name |-> l.league_name, country |-> l.country_code, level |-> l.level]])

\* One configured league is modelled, so the rows are that league's.
build_source_entity_map_for_leagues(cfg_leagues, ids) ==
    FrameOfRows(SourceEntityMapCols,
        IF cfg_leagues = <<>> THEN <<>>
        ELSE LET l == cfg_leagues[1]
                 srcs == SelectSeq(Sources, LAMBDA src : src \in ids)
             IN  [i \in DOMAIN srcs |->
                     [entity_type |-> "league", source |-> srcs[i],
                      source_id |-> ProviderLeagueId,
                      canonical_id |-> make_league_id(l.country_code, l.league_name, l.level),
                      source_name |-> l.league_name, season_id |-> "",
                      confidence |-> 1, match_method |-> "config",
                      fetched_at |-> "now"]])

\* One league is configured and the years ascend, so the rows are already in
\* (league_id, season_start_year) order.
build_seasons_table(leagues_df, years) ==
    Df(SeasonCols,
       [i \in DOMAIN years |->
           [id |-> make_season_id(leagues_df.rows[1].id, years[i]),
            league_id |-> leagues_df.rows[1].id,
            season_start_year |-> years[i],
            season_label |-> make_season_label(years[i])]])

-----------------------------------------------------------------------------
(* The providers: what a fetch returns                                     *)

NumSeasons == 2

FirstSeasonYear == 2019

\* season_years = [2019, 2020, ...]
season_years == [i \in 1..NumSeasons |-> FirstSeasonYear + i - 1]

\* [l.ids.get(source) for l in cfg_leagues if l.ids.get(source)]
LeaguesOf(source) == IF source \in cfg_ids THEN <<ProviderLeagueId>> ELSE <<>>

\* The (league, season) units of a provider, in the order of the two loops.
UnitsOf(leagues) ==
    [k \in 1..(Len(leagues) * NumSeasons) |->
        [league |-> leagues[((k - 1) \div NumSeasons) + 1],
         season |-> season_years[((k - 1) % NumSeasons) + 1]]]

FbTeamCols == <<"squad", "season", "points", "rank">>

FbPlayerCols == <<"player", "squad", "season", "minutes", "goals", "assists">>

UsPlayerCols == <<"player", "team", "season", "minutes", "goals", "assists", "xg">>

\* What FBref returns for a unit's team table.
FbTeamFrame(unit) ==
    Df(FbTeamCols,
       <<[squad |-> Arsenal, season |-> SpanCode(unit.season),
          points |-> Some(50), rank |-> Some(1)]>>)

\* What FBref returns for a unit's player table; its shapes: the season as a
\* span, or left empty.
FbPlayerFrame(unit, shape) ==
    Df(FbPlayerCols,
       <<[player |-> RaulGarcia, squad |-> Arsenal,
          season |-> IF shape = "span" THEN SpanCode(unit.season) ELSE <<>>,
          minutes |-> Some(900), goals |-> Some(5), assists |-> Some(2)]>>)

\* The columns of Understat's answer in its shapes: with its season column
\* ("full"), without it ("noseason"); "empty" has no rows at all.
UsRawCols(shape) ==
    IF shape = "full"
    THEN <<"league", "season", "team", "player", "minutes", "goals", "assists", "xg">>
    ELSE <<"league", "team", "player", "minutes", "goals", "assists", "xg">>

\* What Understat's read_player_season_stats returns for the units, after
\* reset_index: the first season's row is of the player and team FBref
\* reports, the later seasons' rows of another player and team.
UsRawFrame(units, shape) ==
    LET full(unit) == [league |-> unit.league, season |-> CompactCode(unit.season),
                       team |-> IF unit.season = FirstSeasonYear THEN Arsenal ELSE Chelsea,
                       player |-> IF unit.season = FirstSeasonYear THEN RaulGarcia
                                  ELSE JosePlain,
                       minutes |-> Some(900),
                       goals |-> Some(5), assists |-> Some(2), xg |-> Some(42)]
    IN  IF shape = "empty" THEN NoFrame
        ELSE Df(UsRawCols(shape),
                [k \in DOMAIN units |->
                    [c \in Range(UsRawCols(shape)) |-> full(units[k])[c]]])

-----------------------------------------------------------------------------
(* src/fbref_extractor.py, src/understat_extractor.py                      *)

\* df[col] = value: the column is added, or overwritten, in every row.
SetRowCol(row, col, value) ==
    [c \in DOMAIN row \cup {col} |-> IF c = col THEN value ELSE row[c]]

SetCol(df, col, value) ==
    Df(IF col \in Range(df.cols) THEN df.cols ELSE Append(df.cols, col),
       [i \in DOMAIN df.rows |-> SetRowCol(df.rows[i], col, value)])

\* df["source"] = "fbref"; df["league_code"] = lg; df["season_year"] = season
FbTag(df, unit) ==
    SetCol(SetCol(SetCol(df, "source", "fbref"), "league_code", unit.league),
           "season_year", unit.season)

\* pd.concat(all_tables, ignore_index=True) of frames with the same columns.
RECURSIVE ConcatRows(_)
ConcatRows(frames) ==
    IF frames = <<>> THEN <<>> ELSE Head(frames).rows \o ConcatRows(Tail(frames))

\* if not all_tables: return pd.DataFrame(); return pd.concat(all_tables)
FbConcat(frames) ==
    IF frames = <<>> THEN NoFrame ELSE Df(Head(frames).cols, ConcatRows(frames))

\* The column is added with the default when the frame lacks it.
WithDefault(df, col, value) ==
    IF col \in Range(df.cols) THEN df ELSE SetCol(df, col, value)

\* extract_understat_player_season_stats after the provider answered: the
\* provider's column names are already the lower-case names the rename map
\* keeps.
UsNormalize(raw) ==
    IF IsEmpty(raw) THEN NoFrame
    ELSE LET d1 == WithDefault(raw, "season", <<>>)
             d2 == WithDefault(d1, "minutes", Some(0))
             d3 == WithDefault(d2, "goals", Some(0))
             d4 == WithDefault(d3, "assists", Some(0))
             d5 == WithDefault(d4, "xg", Some(0))
         IN  SetCol(d5, "source", "understat")

-----------------------------------------------------------------------------
(* Names: the catalog builders applied to extracts of two raw names        *)

MaxNameLen == 2

NameAlphabet == {"a", "E", "U+00E9", " "}

RECURSIVE NamesUpTo(_)
NamesUpTo(n) ==
    IF n = 0 THEN {<<>>}
    ELSE LET shorter == NamesUpTo(n - 1)
         IN  shorter \cup {Append(s, c) : s \in shorter, c \in NameAlphabet}

FixedNames == {JoseAccented, JosePlain, RaulGarcia, Arsenal,
               <<"a","r","s","e","n","a","l">>, <<"a","\t","a">>,
               <<"I","U+015E","I","K">>, <<DotlessI,"s","i","k">>, <<"a","-","a">>,
               <<"a"," ","-"," ","a">>}

NamePool == NamesUpTo(MaxNameLen) \cup FixedNames

\* A one-column extract holding the given names, one row each.
NameExtract(col, names) == Df(<<col>>, [i \in DOMAIN names |-> [c \in {col} |-> names[i]]])

NamesIdle == name1 = <<>> /\ name2 = <<>> /\ name_std = <<>>

CatalogsIdle == teams_df = NoFrame /\ players_df = NoFrame

SeasonIdle ==
    /\ start_year = 0
    /\ season_fmt = "none"
    /\ season = <<>>
    /\ season_start_year = Absent

FactsIdle ==
    /\ df_player_stats_fb = NoFrame
    /\ df_player_stats_us = NoFrame
    /\ player_season_df = NoFrame

RunIdle ==
    /\ pc = "idle"
    /\ cfg_ids = {}
    /\ unit_k = 1
    /\ all_tables = <<>>
    /\ fetch_log = <<>>
    /\ df_team_stats = NoFrame
    /\ team_season_df = NoFrame
    /\ tables = <<>>
    /\ write_queue = <<>>
    /\ files = <<>>
    /\ write_faults = 0
    /\ raised = "none"

NamesInit ==
    /\ name1 \in NamePool
    /\ name2 \in NamePool
    /\ name_std = <<>>
    /\ CatalogsIdle
    /\ SeasonIdle
    /\ FactsIdle
    /\ RunIdle

NamesBuildTeamsFromFbref ==
    /\ teams_df' = build_teams_from_fbref(NameExtract("squad", <<name1, name2>>))
    /\ UNCHANGED <<nameVars, players_df, seasonVars, factVars, runVars>>

NamesBuildPlayersFromFbref ==
    /\ players_df' = build_players_from_fbref(NameExtract("player", <<name1, name2>>))
    /\ UNCHANGED <<nameVars, teams_df, seasonVars, factVars, runVars>>

NamesBuildTeamsFromUnderstat ==
    /\ teams_df' = build_teams_from_understat(NameExtract("team", <<name1, name2>>))
    /\ UNCHANGED <<nameVars, players_df, seasonVars, factVars, runVars>>

NamesBuildPlayersFromUnderstat ==
    /\ players_df' = build_players_from_understat(NameExtract("player", <<name1, name2>>))
    /\ UNCHANGED <<nameVars, teams_df, seasonVars, factVars, runVars>>

\* standardize_name applied to the raw name, then to its own result.
NamesStandardize ==
    /\ Len(name_std) < 2
    /\ name_std' = Append(name_std, standardize_name(IF name_std = <<>> THEN name1
                                                     ELSE name_std[Len(name_std)]))
    /\ UNCHANGED <<name1, name2, catalogVars, seasonVars, factVars, runVars>>

NamesNext ==
    \/ NamesStandardize
    \/ NamesBuildTeamsFromFbref
    \/ NamesBuildPlayersFromFbref
    \/ NamesBuildTeamsFromUnderstat
    \/ NamesBuildPlayersFromUnderstat

SpecNames == NamesInit /\ [][NamesNext]_vars

-----------------------------------------------------------------------------
(* Seasons: a provider reports a season, the resolver decodes it           *)

StartYears == 1990..2099

\* Season values that carry no year.
UnknownSeasons == {<<>>, <<"n", "/", "a">>, <<"1", "9", "-", "2", "0">>}

SeasonInit ==
    /\ start_year \in StartYears
    /\ season_fmt = "none"
    /\ season = <<>>
    /\ season_start_year = Absent
    /\ NamesIdle
    /\ CatalogsIdle
    /\ FactsIdle
    /\ RunIdle

ReportCompact ==
    /\ season_fmt = "none"
    /\ season_fmt' = "compact"
    /\ season' = CompactCode(start_year)
    /\ UNCHANGED <<start_year, season_start_year, nameVars, catalogVars, factVars, runVars>>

ReportSpan ==
    /\ season_fmt = "none"
    /\ season_fmt' = "span"
    /\ season' = SpanCode(start_year)
    /\ UNCHANGED <<start_year, season_start_year, nameVars, catalogVars, factVars, runVars>>

ReportYear ==
    /\ season_fmt = "none"
    /\ season_fmt' = "year"
    /\ season' = YearCode(start_year)
    /\ UNCHANGED <<start_year, season_start_year, nameVars, catalogVars, factVars, runVars>>

ReportUnknown ==
    /\ season_fmt = "none"
    /\ season_fmt' = "unknown"
    /\ season' \in UnknownSeasons
    /\ UNCHANGED <<start_year, season_start_year, nameVars, catalogVars, factVars, runVars>>

ParseUnderstatSeason ==
    /\ season_fmt # "none"
    /\ season_start_year' = parse_understat_season_start_year(season)
    /\ UNCHANGED <<start_year, season_fmt, season, nameVars, catalogVars, factVars, runVars>>

SeasonNext ==
    \/ ReportCompact
    \/ ReportSpan
    \/ ReportYear
    \/ ReportUnknown
    \/ ParseUnderstatSeason

SpecSeason == SeasonInit /\ [][SeasonNext]_vars

-----------------------------------------------------------------------------
(* Merge: build_player_season_stats applied to small extracts              *)

MaxFactRows == 2

\* A player of the catalog, the same name in lower case, and a player the
\* catalog does not hold.
MergePlayers == {RaulGarcia, LowerAll(RaulGarcia), JosePlain}

MergeTeams == {Arsenal, Chelsea}

MergeSeasons == {CompactCode(2019), <<>>}

\* Two stat lines: neither is the larger one in every field.
MergeStats ==
    {[minutes |-> Some(900), goals |-> Some(5), assists |-> Some(2), xg |-> Some(42)],
     [minutes |-> Some(450), goals |-> Some(8), assists |-> Some(1), xg |-> Some(30)]}

FbPlayerRows ==
    {[player |-> p, squad |-> t, season |-> y, minutes |-> st.minutes,
      goals |-> st.goals, assists |-> st.assists] :
        p \in MergePlayers, t \in MergeTeams, y \in MergeSeasons, st \in MergeStats}

UsPlayerRows ==
    {[player |-> p, team |-> t, season |-> y, minutes |-> st.minutes,
      goals |-> st.goals, assists |-> st.assists, xg |-> st.xg] :
        p \in MergePlayers, t \in MergeTeams, y \in MergeSeasons, st \in MergeStats}

MergeInit ==
    /\ players_df = build_players_from_fbref(NameExtract("player", <<RaulGarcia>>))
    /\ teams_df \in {build_teams_from_fbref(NoFrame),
                     build_teams_from_fbref(NameExtract("squad", <<Arsenal>>))}
    /\ df_player_stats_fb = Df(FbPlayerCols, <<>>)
    /\ df_player_stats_us = Df(UsPlayerCols, <<>>)
    /\ player_season_df = NoFrame
    /\ NamesIdle
    /\ SeasonIdle
    /\ RunIdle

MergeRoom ==
    /\ player_season_df = NoFrame
    /\ Len(df_player_stats_fb.rows) + Len(df_player_stats_us.rows) < MaxFactRows

FbrefReportsPlayer ==
    /\ MergeRoom
    /\ \E r \in FbPlayerRows :
           df_player_stats_fb' = Df(FbPlayerCols, Append(df_player_stats_fb.rows, r))
    /\ UNCHANGED <<df_player_stats_us, player_season_df, nameVars, catalogVars, seasonVars, runVars>>

UnderstatReportsPlayer ==
    /\ MergeRoom
    /\ \E r \in UsPlayerRows :
           df_player_stats_us' = Df(UsPlayerCols, Append(df_player_stats_us.rows, r))
    /\ UNCHANGED <<df_player_stats_fb, player_season_df, nameVars, catalogVars, seasonVars, runVars>>

MergeFacts ==
    /\ player_season_df = NoFrame
    /\ player_season_df' =
           build_player_season_stats(df_player_stats_fb, df_player_stats_us,
                                     players_df, teams_df)
    /\ UNCHANGED <<df_player_stats_fb, df_player_stats_us, nameVars, catalogVars, seasonVars, runVars>>

MergeNext ==
    \/ FbrefReportsPlayer
    \/ UnderstatReportsPlayer
    \/ MergeFacts

SpecMerge == MergeInit /\ [][MergeNext]_vars

-----------------------------------------------------------------------------
(* Coercion: build_player_season_stats applied to extracts that lack       *)
(* numeric columns and hold cells that are not numbers                     *)

\* Three stat lines of one player, team and season: every cell a number, no
\* cell a number, and a mix of the two.
CoerceStats ==
    {[minutes |-> Some(900), goals |-> Some(5), assists |-> Some(2), xg |-> Some(42)],
     [minutes |-> Absent, goals |-> Absent, assists |-> Absent, xg |-> Absent],
     [minutes |-> Absent, goals |-> Some(8), assists |-> Some(1), xg |-> Absent]}

\* The catalogs hold the player and the team; the responses of both sources
\* will lack the same numeric columns, any of the four.
CoerceInit ==
    /\ players_df = build_players_from_fbref(NameExtract("player", <<RaulGarcia>>))
    /\ teams_df = build_teams_from_fbref(NameExtract("squad", <<Arsenal>>))
    /\ \E missing \in SUBSET {"minutes", "goals", "assists", "xg"} :
           /\ df_player_stats_fb =
                  Df(SelectSeq(FbPlayerCols, LAMBDA c : c \notin missing), <<>>)
           /\ df_player_stats_us =
                  Df(SelectSeq(UsPlayerCols, LAMBDA c : c \notin missing), <<>>)
    /\ player_season_df = NoFrame
    /\ NamesIdle
    /\ SeasonIdle
    /\ RunIdle

\* FBref reports a stat line of the player, in the columns its response has.
FbrefReportsStats ==
    /\ MergeRoom
    /\ \E st \in CoerceStats :
           LET full == [player |-> RaulGarcia, squad |-> Arsenal,
                        season |-> CompactCode(2019), minutes |-> st.minutes,
                        goals |-> st.goals, assists |-> st.assists]
               r == [c \in Range(df_player_stats_fb.cols) |-> full[c]]
           IN  df_player_stats_fb' =
                   Df(df_player_stats_fb.cols, Append(df_player_stats_fb.rows, r))
    /\ UNCHANGED <<df_player_stats_us, player_season_df, nameVars, catalogVars, seasonVars, runVars>>

\* Understat reports a stat line of the player, in the columns its response
\* has.
UnderstatReportsStats ==
    /\ MergeRoom
    /\ \E st \in CoerceStats :
           LET full == [player |-> RaulGarcia, team |-> Arsenal,
                        season |-> CompactCode(2019), minutes |-> st.minutes,
                        goals |-> st.goals, assists |-> st.assists, xg |-> st.xg]
               r == [c \in Range(df_player_stats_us.cols) |-> full[c]]
           IN  df_player_stats_us' =
                   Df(df_player_stats_us.cols, Append(df_player_stats_us.rows, r))
    /\ UNCHANGED <<df_player_stats_fb, player_season_df, nameVars, catalogVars, seasonVars, runVars>>

CoerceNext ==
    \/ FbrefReportsStats
    \/ UnderstatReportsStats
    \/ MergeFacts

SpecCoerce == CoerceInit /\ [][CoerceNext]_vars

-----------------------------------------------------------------------------
(* main.py: one run of main()                                              *)

MaxWriteFaults == 1

cfg_leagues == <<PremierLeague>>

\* Lines 315-335 on a frame whose every season resolves: the canonical
\* league, start year, season id and label are added, and the rows of
\* unmapped leagues are removed.  str(NaN) in the f-string prints "nan".
CanonicalizeUnderstat(df) ==
    LET \* understat_to_canonical.get(league): NaN for a league that is not mapped.
        UnderstatToCanonical(league) ==
            IF "understat" \in cfg_ids /\ league = ProviderLeagueId
            THEN make_league_id(PremierLeague.country_code, PremierLeague.league_name,
                                PremierLeague.level)
            ELSE NaN
        row(i) ==
            LET r == df.rows[i]
                lid == UnderstatToCanonical(r.league)
                y == ValueOf(parse_understat_season_start_year(r.season))
            IN  SetRowCol(SetRowCol(SetRowCol(SetRowCol(r,
                    "canonical_league_id", lid),
                    "season_start_year", y),
                    "season_id", make_season_id(IF lid = NaN THEN "nan" ELSE lid, y)),
                    "season_label", make_season_label(y))
        all == [i \in DOMAIN df.rows |-> row(i)]
    IN  Df(df.cols \o <<"canonical_league_id", "season_start_year", "season_id", "season_label">>,
           SelectSeq(all, LAMBDA r : r.canonical_league_id # NaN))

\* df["player_std"] = df["player"].apply(standardize_name), when the frame has
\* rows and a player column.
WithPlayerStd(df) ==
    IF IsEmpty(df) \/ "player" \notin Range(df.cols) THEN df
    ELSE Df(Append(df.cols, "player_std"),
            [i \in DOMAIN df.rows |->
                SetRowCol(df.rows[i], "player_std", standardize_name(df.rows[i].player))])

\* The frame a file name of the write queue stands for.
PendingFrame(name) ==
    CASE name = "fbref_team_season_raw" -> df_team_stats
      [] name = "fbref_player_season_raw" -> df_player_stats_fb
      [] name = "understat_player_season_raw" -> df_player_stats_us
      [] OTHER -> tables[name]

\* A mutant of CsvOf: nothing is written for a frame without rows.
CsvOfSkipsEmpty(df) == IF IsEmpty(df) THEN NoFrame ELSE df

\* What safe_to_csv writes for a frame: the header alone when the frame is
\* empty (df.head(0)), else the header and the rows.
CsvOf(df) == IF IsEmpty(df) THEN Df(df.cols, <<>>) ELSE df

RunInit ==
    /\ pc = "start"
    /\ cfg_ids \in SUBSET Range(Sources)
    /\ unit_k = 1
    /\ all_tables = <<>>
    /\ fetch_log = [fb_team |-> <<>>, fb_player |-> <<>>, us |-> <<>>]
    /\ df_team_stats = NoFrame
    /\ df_player_stats_fb = NoFrame
    /\ df_player_stats_us = NoFrame
    /\ teams_df = NoFrame
    /\ players_df = NoFrame
    /\ team_season_df = NoFrame
    /\ player_season_df = NoFrame
    /\ tables = <<>>
    /\ write_queue = <<>>
    /\ files = <<>>
    /\ write_faults = 0
    /\ raised = "none"
    /\ NamesIdle
    /\ SeasonIdle

\* Lines 243-275: the schema, the league, season and entity-map tables.
Start ==
    /\ pc = "start"
    /\ LET leagues_df == build_leagues_table(cfg_leagues)
       IN  tables' = [normalized_empty_tables_v1 EXCEPT
                        !["leagues"] = leagues_df,
                        !["seasons"] = build_seasons_table(leagues_df, season_years),
                        !["source_entity_map"] =
                            build_source_entity_map_for_leagues(cfg_leagues, cfg_ids)]
    /\ pc' = "fbref_team"
    /\ UNCHANGED <<cfg_ids, unit_k, all_tables, fetch_log, df_team_stats, team_season_df,
                   write_queue, files, write_faults, raised, factVars, catalogVars, nameVars, seasonVars>>

\* Line 290: no league has an FBref id.
SkipFbref ==
    /\ pc = "fbref_team"
    /\ "fbref" \notin cfg_ids
    /\ pc' = "understat"
    /\ UNCHANGED <<cfg_ids, unit_k, all_tables, fetch_log, df_team_stats, team_season_df,
                   tables, write_queue, files, write_faults, raised, factVars, catalogVars,
                   nameVars, seasonVars>>

\* FBref() itself raises: main catches it and keeps the empty frame.
FbrefTeamUnavailable ==
    /\ pc = "fbref_team"
    /\ "fbref" \in cfg_ids
    /\ unit_k = 1
    /\ fetch_log' = [fetch_log EXCEPT !.fb_team = <<"unavailable">>]
    /\ pc' = "fbref_player"
    /\ UNCHANGED <<cfg_ids, unit_k, all_tables, df_team_stats, team_season_df,
                   tables, write_queue, files, write_faults, raised, factVars, catalogVars,
                   nameVars, seasonVars>>

\* One pass of the loop of extract_fbref_team_season_stats: the unit's table
\* is collected, or its exception is caught and logged.
FbrefTeamFetch ==
    /\ pc = "fbref_team"
    /\ "fbref" \in cfg_ids
    /\ unit_k <= Len(UnitsOf(LeaguesOf("fbref")))
    /\ \E ok \in BOOLEAN :
          /\ all_tables' =
                 IF ok THEN Append(all_tables,
                                   FbTag(FbTeamFrame(UnitsOf(LeaguesOf("fbref"))[unit_k]),
                                         UnitsOf(LeaguesOf("fbref"))[unit_k]))
                 ELSE all_tables
          /\ fetch_log' = [fetch_log EXCEPT
                             !.fb_team = Append(@, IF ok THEN "ok" ELSE "fail")]
    /\ unit_k' = unit_k + 1
    /\ UNCHANGED <<pc, cfg_ids, df_team_stats, team_season_df, tables, write_queue, files,
                   write_faults, raised, factVars, catalogVars, nameVars, seasonVars>>

\* The end of extract_fbref_team_season_stats and line 281.
FbrefTeamReturn ==
    /\ pc = "fbref_team"
    /\ "fbref" \in cfg_ids
    /\ unit_k > Len(UnitsOf(LeaguesOf("fbref")))
    /\ df_team_stats' = FbConcat(all_tables)
    /\ all_tables' = <<>>
    /\ unit_k' = 1
    /\ pc' = "fbref_player"
    /\ UNCHANGED <<cfg_ids, fetch_log, team_season_df, tables, write_queue, files,
                   write_faults, raised, factVars, catalogVars, nameVars, seasonVars>>

FbrefPlayerUnavailable ==
    /\ pc = "fbref_player"
    /\ unit_k = 1
    /\ fetch_log' = [fetch_log EXCEPT !.fb_player = <<"unavailable">>]
    /\ pc' = "understat"
    /\ UNCHANGED <<cfg_ids, unit_k, all_tables, df_team_stats, team_season_df,
                   tables, write_queue, files, write_faults, raised, factVars, catalogVars,
                   nameVars, seasonVars>>

\* One pass of the loop of extract_fbref_player_season_stats.
FbrefPlayerFetch ==
    /\ pc = "fbref_player"
    /\ unit_k <= Len(UnitsOf(LeaguesOf("fbref")))
    /\ \/ /\ \E shape \in {"span", "blank"} :
                all_tables' =
                    Append(all_tables,
                           FbTag(FbPlayerFrame(UnitsOf(LeaguesOf("fbref"))[unit_k], shape),
                                 UnitsOf(LeaguesOf("fbref"))[unit_k]))
          /\ fetch_log' = [fetch_log EXCEPT !.fb_player = Append(@, "ok")]
       \/ /\ all_tables' = all_tables
          /\ fetch_log' = [fetch_log EXCEPT !.fb_player = Append(@, "fail")]
    /\ unit_k' = unit_k + 1
    /\ UNCHANGED <<pc, cfg_ids, df_team_stats, team_season_df, tables, write_queue, files,
                   write_faults, raised, teams_df, players_df, player_season_df,
                   df_player_stats_fb, df_player_stats_us, nameVars, seasonVars>>

\* The end of extract_fbref_player_season_stats and line 287.
FbrefPlayerReturn ==
    /\ pc = "fbref_player"
    /\ unit_k > Len(UnitsOf(LeaguesOf("fbref")))
    /\ df_player_stats_fb' = FbConcat(all_tables)
    /\ all_tables' = <<>>
    /\ unit_k' = 1
    /\ pc' = "understat"
    /\ UNCHANGED <<cfg_ids, fetch_log, df_team_stats, team_season_df, tables, write_queue,
                   files, write_faults, raised, catalogVars, df_player_stats_us,
                   player_season_df, nameVars, seasonVars>>

\* Line 302: no league has an Understat id.
SkipUnderstat ==
    /\ pc = "understat"
    /\ "understat" \notin cfg_ids
    /\ pc' = "canonical"
    /\ UNCHANGED <<cfg_ids, unit_k, all_tables, fetch_log, df_team_stats, team_season_df,
                   tables, write_queue, files, write_faults, raised, factVars, catalogVars,
                   nameVars, seasonVars>>

\* extract_understat_player_season_stats makes one call for all the units:
\* when the fetch of any unit fails the call raises, and main (line 298)
\* catches it and keeps the empty frame.
UnderstatRaises ==
    /\ pc = "understat"
    /\ "understat" \in cfg_ids
    /\ \E failed \in (SUBSET DOMAIN UnitsOf(LeaguesOf("understat"))) \ {{}} :
          fetch_log' = [fetch_log EXCEPT
                          !.us = [k \in DOMAIN UnitsOf(LeaguesOf("understat")) |->
                                     IF k \in failed THEN "fail" ELSE "ok"]]
    /\ pc' = "canonical"
    /\ UNCHANGED <<cfg_ids, unit_k, all_tables, df_team_stats, team_season_df,
                   tables, write_queue, files, write_faults, raised, factVars, catalogVars,
                   nameVars, seasonVars>>

\* Every unit's fetch succeeds: the extractor normalizes the answer.
UnderstatReturns ==
    /\ pc = "understat"
    /\ "understat" \in cfg_ids
    /\ \E shape \in {"full", "noseason", "empty"} :
          df_player_stats_us' = UsNormalize(UsRawFrame(UnitsOf(LeaguesOf("understat")), shape))
    /\ fetch_log' = [fetch_log EXCEPT
                       !.us = [k \in DOMAIN UnitsOf(LeaguesOf("understat")) |-> "ok"]]
    /\ pc' = "canonical"
    /\ UNCHANGED <<cfg_ids, unit_k, all_tables, df_team_stats, team_season_df,
                   tables, write_queue, files, write_faults, raised, catalogVars,
                   df_player_stats_fb, player_season_df, nameVars, seasonVars>>

\* The rows of the Understat frame whose season does not resolve.
UnresolvedSeasonRows ==
    {i \in DOMAIN df_player_stats_us.rows :
        parse_understat_season_start_year(df_player_stats_us.rows[i].season) = Absent}

\* Lines 313-335.
UnderstatSeasonIds ==
    /\ pc = "canonical"
    /\ IsEmpty(df_player_stats_us) \/ UnresolvedSeasonRows = {}
    /\ df_player_stats_us' =
           IF IsEmpty(df_player_stats_us) THEN df_player_stats_us
           ELSE CanonicalizeUnderstat(df_player_stats_us)
    /\ pc' = "standardize"
    /\ UNCHANGED <<cfg_ids, unit_k, all_tables, fetch_log, df_team_stats, team_season_df,
                   tables, write_queue, files, write_faults, raised, catalogVars,
                   df_player_stats_fb, player_season_df, nameVars, seasonVars>>

\* Line 325: int(r["season_start_year"]) of a season that did not resolve
\* raises, outside every try block.
UnderstatSeasonIdsRaise ==
    /\ pc = "canonical"
    /\ ~IsEmpty(df_player_stats_us)
    /\ UnresolvedSeasonRows # {}
    /\ pc' = "crashed"
    /\ raised' = "season"
    /\ UNCHANGED <<cfg_ids, unit_k, all_tables, fetch_log, df_team_stats, team_season_df,
                   tables, write_queue, files, write_faults, factVars, catalogVars,
                   nameVars, seasonVars>>

\* Lines 344-351, and the queue of the three raw files (354-356).
StandardizeNames ==
    /\ pc = "standardize"
    /\ df_player_stats_fb' = WithPlayerStd(df_player_stats_fb)
    /\ df_player_stats_us' = WithPlayerStd(df_player_stats_us)
    /\ write_queue' = <<"fbref_team_season_raw", "fbref_player_season_raw",
                        "understat_player_season_raw">>
    /\ pc' = "save_raw"
    /\ UNCHANGED <<cfg_ids, unit_k, all_tables, fetch_log, df_team_stats, team_season_df,
                   tables, files, write_faults, raised, catalogVars, player_season_df,
                   nameVars, seasonVars>>

\* safe_to_csv: to_csv succeeds.
SafeToCsvWrites ==
    /\ pc \in {"save_raw", "write_tables"}
    /\ write_queue # <<>>
    /\ files' = (Head(write_queue) :> CsvOf(PendingFrame(Head(write_queue)))) @@ files
    /\ write_queue' = Tail(write_queue)
    /\ UNCHANGED <<pc, cfg_ids, unit_k, all_tables, fetch_log, df_team_stats, team_season_df,
                   tables, write_faults, raised, factVars, catalogVars, nameVars, seasonVars>>

\* safe_to_csv: to_csv raises, the except branch writes the empty placeholder.
SafeToCsvFallsBack ==
    /\ pc \in {"save_raw", "write_tables"}
    /\ write_queue # <<>>
    /\ write_faults < MaxWriteFaults
    /\ write_faults' = write_faults + 1
    /\ files' = (Head(write_queue) :> NoFrame) @@ files
    /\ write_queue' = Tail(write_queue)
    /\ UNCHANGED <<pc, cfg_ids, unit_k, all_tables, fetch_log, df_team_stats, team_season_df,
                   tables, raised, factVars, catalogVars, nameVars, seasonVars>>

\* safe_to_csv: to_csv raises and the placeholder write in the except branch
\* raises too: the exception leaves main.
SafeToCsvRaises ==
    /\ pc \in {"save_raw", "write_tables"}
    /\ write_queue # <<>>
    /\ write_faults < MaxWriteFaults
    /\ write_faults' = write_faults + 1
    /\ pc' = "crashed"
    /\ raised' = "write"
    /\ UNCHANGED <<cfg_ids, unit_k, all_tables, fetch_log, df_team_stats, team_season_df,
                   tables, write_queue, files, factVars, catalogVars, nameVars, seasonVars>>

\* A mutant of CatalogWithFallback: the secondary source's entries are always
\* added.
CatalogWithBoth(primary, secondary) == Df(secondary.cols, primary.rows \o secondary.rows)

\* if teams_df.empty: teams_df = build_teams_from_understat(...), and the
\* same for players_df.
CatalogWithFallback(primary, secondary) == IF IsEmpty(primary) THEN secondary ELSE primary

\* Lines 362-376, and the queue of write_tables_as_csv.
Transform ==
    /\ pc = "save_raw"
    /\ write_queue = <<>>
    /\ LET teams == CatalogWithFallback(build_teams_from_fbref(df_team_stats),
                                        build_teams_from_understat(df_player_stats_us))
           players == CatalogWithFallback(build_players_from_fbref(df_player_stats_fb),
                                          build_players_from_understat(df_player_stats_us))
           team_season == build_team_season_from_fbref(df_team_stats, teams)
           player_season == build_player_season_stats(df_player_stats_fb,
                                                      df_player_stats_us, players, teams)
       IN  /\ teams_df' = teams
           /\ players_df' = players
           /\ team_season_df' = team_season
           /\ player_season_df' = player_season
           /\ tables' = [tables EXCEPT !["teams"] = teams, !["players"] = players,
                                       !["team_season"] = team_season,
                                       !["player_season_stats"] = player_season]
    /\ write_queue' = TableNames
    /\ pc' = "write_tables"
    /\ UNCHANGED <<cfg_ids, unit_k, all_tables, fetch_log, df_team_stats, files,
                   write_faults, raised, df_player_stats_fb, df_player_stats_us, nameVars, seasonVars>>

\* Lines 387-388: main returns.
Finish ==
    /\ pc = "write_tables"
    /\ write_queue = <<>>
    /\ pc' = "done"
    /\ UNCHANGED <<cfg_ids, unit_k, all_tables, fetch_log, df_team_stats, team_season_df,
                   tables, write_queue, files, write_faults, raised, factVars, catalogVars,
                   nameVars, seasonVars>>

Next ==
    \/ Start
    \/ SkipFbref
    \/ FbrefTeamUnavailable
    \/ FbrefTeamFetch
    \/ FbrefTeamReturn
    \/ FbrefPlayerUnavailable
    \/ FbrefPlayerFetch
    \/ FbrefPlayerReturn
    \/ SkipUnderstat
    \/ UnderstatRaises
    \/ UnderstatReturns
    \/ UnderstatSeasonIds
    \/ UnderstatSeasonIdsRaise
    \/ StandardizeNames
    \/ SafeToCsvWrites
    \/ SafeToCsvFallsBack
    \/ SafeToCsvRaises
    \/ Transform
    \/ Finish

Spec == RunInit /\ [][Next]_vars

-----------------------------------------------------------------------------
(* Claims about names and identifiers (SpecNames)                          *)

\* C5: "Jose Martinez" written with and without its accents gets one player
\* id: when the player builders are given an extract holding both spellings,
\* every catalog row carries the same id.
C5_AccentedAndPlainShareId ==
    (name1 = JoseAccented /\ name2 = JosePlain /\ ~IsEmpty(players_df)) =>
        \A i, j \in DOMAIN players_df.rows :
            players_df.rows[i].id = players_df.rows[j].id

\* C9: in the team and player catalogs, two rows with the same id have the
\* same canonical name (standardize_name), so distinct entities are never
\* merged into one id.
C9_EqualIdsImplyEqualCanonicalNames ==
    \A df \in {teams_df, players_df} :
        \A i, j \in DOMAIN df.rows :
            df.rows[i].id = df.rows[j].id =>
                standardize_name(df.rows[i].name) = standardize_name(df.rows[j].name)

\* The ids a catalog gives to a name.
IdsOf(df, name) == {df.rows[i].id : i \in {k \in DOMAIN df.rows : df.rows[k].name = name}}

\* Other extracts that hold the name: alone, and among name1 and name2 in
\* other orders and multiplicities.
ExtractsWith(name) ==
    {e \in {<<name>>, <<name2, name1>>, <<name1, name, name2>>,
            <<name2, name2, name1>>, <<name, name1>>, <<name2, name>>} :
        name \in Range(e)}

\* C10: the id a builder gives to a name depends only on the prefix and the
\* name: every team (player) builder gives a catalog name the same id from
\* any other extract that holds the name, whatever the other rows and their
\* order.
C10_IdDependsOnlyOnPrefixAndName ==
    /\ \A i \in DOMAIN teams_df.rows :
           LET r == teams_df.rows[i] IN
           \A e \in ExtractsWith(r.name) :
               /\ IdsOf(build_teams_from_fbref(NameExtract("squad", e)), r.name) = {r.id}
               /\ IdsOf(build_teams_from_understat(NameExtract("team", e)), r.name) = {r.id}
    /\ \A i \in DOMAIN players_df.rows :
           LET r == players_df.rows[i] IN
           \A e \in ExtractsWith(r.name) :
               /\ IdsOf(build_players_from_fbref(NameExtract("player", e)), r.name) = {r.id}
               /\ IdsOf(build_players_from_understat(NameExtract("player", e)), r.name) = {r.id}

\* C10 witness: both catalogs were built from two different names.
C10_Witness ==
    /\ name1 # name2
    /\ Len(teams_df.rows) = 2
    /\ Len(players_df.rows) = 2

\* C11: standardize_name is idempotent: applied to its own result it returns
\* that result.
C11_StandardizeNameIdempotent ==
    Len(name_std) = 2 => name_std[2] = name_std[1]

\* C11 witness: a name with capitals and a mapped diacritic, changed by the
\* first call, went through both calls.
C11_Witness ==
    /\ Len(name_std) = 2
    /\ name1 = <<"I", "U+015E", "I", "K">>
    /\ name_std[1] = <<"i", "s", "i", "k">>

\* C13: a catalog has at most one row per canonical name and no two rows
\* with one id, and a row's name is the first spelling in the extract, here
\* <<name1, name2>>, with that canonical name.
C13_OneEntryPerCanonicalName ==
    \A df \in {teams_df, players_df} :
        /\ \A i, j \in DOMAIN df.rows :
               (\/ standardize_name(df.rows[i].name) = standardize_name(df.rows[j].name)
                \/ df.rows[i].id = df.rows[j].id) => i = j
        /\ \A i \in DOMAIN df.rows :
               df.rows[i].name =
                   IF standardize_name(name1) = standardize_name(df.rows[i].name)
                   THEN name1 ELSE name2

-----------------------------------------------------------------------------
(* Claims about the season resolver (SpecSeason)                           *)

\* The compact code of start_year was decoded.
CompactDecoded ==
    /\ season_fmt = "compact"
    /\ season = CompactCode(start_year)
    /\ season_start_year # Absent

\* C6 as stated: for every start year in 1990..2099, decoding the compact
\* 4-digit code of the year returns the year.
C6_RoundTrip_1990_2099 ==
    CompactDecoded => season_start_year = Some(start_year)

\* C6 amended: decoding the compact code returns the start year for
\* 1990..2049, and the year a century earlier for 2050..2099.
C6_RoundTrip_1990_2049 ==
    CompactDecoded =>
        season_start_year =
            IF start_year <= 2049 THEN Some(start_year) ELSE Some(start_year - 100)

\* C6 witness: the compact code of 2049, "4950", was decoded.
C6_Witness == CompactDecoded /\ start_year = 2049

\* The start year the decoding rule of the reported format gives: the pivot
\* for a compact code, the year itself for a span and for a bare year.
RuleYear ==
    IF season_fmt = "compact" /\ start_year > 2049 THEN start_year - 100 ELSE start_year

\* C15: for a season reported as a compact code, a span or a bare year, the
\* start year main derives (parse_understat_season_start_year) and the start
\* year the fact merger derives (_to_year) are both the year the rule of that
\* format gives.
C15_StartYearFollowsFormatRule ==
    (season_fmt \in {"compact", "span", "year"} /\ season_start_year # Absent) =>
        /\ season_start_year = Some(RuleYear)
        /\ _to_year(season) = Some(RuleYear)

\* The part of C15 the code keeps: main decodes compact codes and spans by
\* their rule, and the fact merger decodes spans and bare years by theirs.
StartYearRulesKept ==
    season_start_year # Absent =>
        /\ season_fmt \in {"compact", "span"} => season_start_year = Some(RuleYear)
        /\ season_fmt \in {"span", "year"} => _to_year(season) = Some(RuleYear)

-----------------------------------------------------------------------------
(* Claims about the fact merger (SpecMerge)                                *)

MergeDone == player_season_df # NoFrame

\* The rows the two sources projected into the fact shape.
Projected == ProjectedRows(df_player_stats_fb, df_player_stats_us, players_df, teams_df)

NumericFields == {"minutes", "goals", "assists", "xg"}

\* The output row of a key is the field-wise maximum of the projected rows
\* of that key.
IsMaxRow(out, key) ==
    /\ KeyOf(out) = key
    /\ \A f \in NumericFields :
           /\ \E i \in DOMAIN Projected : KeyOf(Projected[i]) = key /\ Projected[i][f] = out[f]
           /\ \A i \in DOMAIN Projected : KeyOf(Projected[i]) = key => Projected[i][f] <= out[f]

\* C2: the output of build_player_season_stats has exactly one row for every
\* distinct (player_id, team_id, season_id) key of the projected rows, and
\* that row holds the maximum of minutes, goals, assists and xg over the
\* projected rows of the key.
C2_OneMaxRowPerKey ==
    MergeDone =>
        \A i \in DOMAIN Projected :
            LET key == KeyOf(Projected[i])
                outs == {j \in DOMAIN player_season_df.rows :
                            KeyOf(player_season_df.rows[j]) = key}
            IN  /\ Cardinality(outs) = 1
                /\ \A j \in outs : IsMaxRow(player_season_df.rows[j], key)

\* The part of C2 the code keeps: every output row is the only row of its
\* key and holds the field-wise maximum of that key's projected rows, and
\* every projected key whose team_id is not NaN has an output row.
MergeMaxOverKeptKeys ==
    MergeDone =>
        /\ \A j, k \in DOMAIN player_season_df.rows :
               KeyOf(player_season_df.rows[j]) = KeyOf(player_season_df.rows[k]) => j = k
        /\ \A j \in DOMAIN player_season_df.rows :
               IsMaxRow(player_season_df.rows[j], KeyOf(player_season_df.rows[j]))
        /\ \A i \in DOMAIN Projected :
               Projected[i].team_id # NaN =>
                   \E j \in DOMAIN player_season_df.rows :
                       KeyOf(player_season_df.rows[j]) = KeyOf(Projected[i])

\* The source rows whose player is in the catalog and whose team is not, as
\* (player name, team name) pairs.
UnknownTeamRows ==
    {<<df_player_stats_fb.rows[i].player, df_player_stats_fb.rows[i].squad>> :
        i \in DOMAIN df_player_stats_fb.rows}
    \cup {<<df_player_stats_us.rows[i].player, df_player_stats_us.rows[i].team>> :
        i \in DOMAIN df_player_stats_us.rows}

\* C4: a source row whose player resolves and whose team is not in the team
\* catalog is kept in the output with team_id "", whether the team catalog
\* is empty or not.
C4_UnknownTeamKeptWithEmptyTeamId ==
    MergeDone =>
        \A pt \in UnknownTeamRows :
            (MapGet(players_df, pt[1]) # NaN /\ MapGet(teams_df, pt[2]) = NaN) =>
                \E j \in DOMAIN player_season_df.rows :
                    /\ player_season_df.rows[j].player_id = MapGet(players_df, pt[1])
                    /\ player_season_df.rows[j].team_id = ""

\* The player names of the source rows, FBref's then Understat's.
SourcePlayers ==
    [i \in DOMAIN df_player_stats_fb.rows |-> df_player_stats_fb.rows[i].player]
        \o [i \in DOMAIN df_player_stats_us.rows |-> df_player_stats_us.rows[i].player]

\* The catalog entries with the canonical name of a source name.
CanonicalMatches(name) ==
    {i \in DOMAIN players_df.rows :
        standardize_name(players_df.rows[i].name) = standardize_name(name)}

\* C14: a source row is projected with the id of the catalog entry of its
\* canonical player name whenever there is such an entry, and is dropped only
\* when there is none.
C14_PlayerResolvedByCanonicalName ==
    MergeDone =>
        /\ Len(Projected) =
               Cardinality({k \in DOMAIN SourcePlayers :
                               CanonicalMatches(SourcePlayers[k]) # {}})
        /\ \A k \in DOMAIN SourcePlayers :
               \A i \in CanonicalMatches(SourcePlayers[k]) :
                   \E j \in DOMAIN Projected :
                       Projected[j].player_id = players_df.rows[i].id

-----------------------------------------------------------------------------
(* Claims about the coercion of numeric fields (SpecCoerce)                *)

\* The number a source cell stands for: 0 when the extract lacks the column
\* or the cell holds no number.
NumberOr0(df, i, field) ==
    IF field \notin Range(df.cols) THEN 0
    ELSE IF df.rows[i][field] = Absent THEN 0
    ELSE ValueOf(df.rows[i][field])

\* The numbers the rows of both extracts stand for in a field.
SourceNumbers(field) ==
    {NumberOr0(df_player_stats_fb, i, field) : i \in DOMAIN df_player_stats_fb.rows}
        \cup {NumberOr0(df_player_stats_us, i, field) : i \in DOMAIN df_player_stats_us.rows}

\* C17: every row of the merged table holds a natural number in minutes,
\* goals, assists and xg; a cell that is no number and a column the extract
\* lacks count as 0: the field is the largest of the numbers the source rows
\* stand for, and the row of the player is there whenever a source reported
\* one (nothing raised, nothing was dropped).
C17_NumericFieldsCoercedToZero ==
    MergeDone =>
        /\ Len(player_season_df.rows) =
               IF SourceNumbers("minutes") = {} THEN 0 ELSE 1
        /\ \A i \in DOMAIN player_season_df.rows : \A f \in NumericFields :
               /\ player_season_df.rows[i][f] \in Nat
               /\ player_season_df.rows[i][f] \in SourceNumbers(f)
               /\ \A n \in SourceNumbers(f) : n <= player_season_df.rows[i][f]

\* C17 witness: Understat's response lacks the goals column and its one row
\* holds no number in minutes and xg; the merged row has 0 in minutes, goals
\* and xg next to the assist it reported.
C17_Witness ==
    /\ MergeDone
    /\ "goals" \notin Range(df_player_stats_us.cols)
    /\ "minutes" \in Range(df_player_stats_us.cols)
    /\ Len(df_player_stats_fb.rows) = 0
    /\ Len(df_player_stats_us.rows) = 1
    /\ df_player_stats_us.rows[1].minutes = Absent
    /\ Len(player_season_df.rows) = 1
    /\ player_season_df.rows[1].minutes = 0
    /\ player_season_df.rows[1].goals = 0
    /\ player_season_df.rows[1].xg = 0
    /\ player_season_df.rows[1].assists = 1

-----------------------------------------------------------------------------
(* Claims about a run of main() (Spec)                                     *)

\* Every provider call of the run has been made.
FetchesDone == pc \in {"canonical", "standardize", "save_raw", "write_tables", "done", "crashed"}

\* Some provider was called, and every call raised: FBref() was unavailable
\* or every unit's fetch failed, and the Understat call raised.
EveryProviderCallRaised ==
    /\ FetchesDone
    /\ cfg_ids # {}
    /\ "fbref" \in cfg_ids =>
           "ok" \notin (Range(fetch_log.fb_team) \cup Range(fetch_log.fb_player))
    /\ "understat" \in cfg_ids => "fail" \in Range(fetch_log.us)

SevenFiles == {"leagues", "seasons", "teams", "players", "team_season",
               "player_season_stats", "source_entity_map"}

\* The tables built from the providers' extracts.
ExtractTables == {"teams", "players", "team_season", "player_season_stats"}

HeaderComplete(t) == t \in DOMAIN files /\ files[t].cols = normalized_empty_tables_v1[t].cols

SeasonTableIds == {tables["seasons"].rows[i].id : i \in DOMAIN tables["seasons"].rows}

\* C3: every season_id written to player_season_stats is the id of a row of
\* the seasons table (the canonical key of league and start year).
C3_FactSeasonIdIsCanonical ==
    "player_season_stats" \in DOMAIN files =>
        \A i \in DOMAIN files["player_season_stats"].rows :
            files["player_season_stats"].rows[i].season_id \in SeasonTableIds

\* The seasons of the units of a log whose fetch succeeded.
SucceededSeasons(log, units) == {units[k].season : k \in {j \in DOMAIN log : log[j] = "ok"}}

\* The units an FBref extract holds rows of.
ExtractSeasons(df) == {df.rows[i].season_year : i \in DOMAIN df.rows}

\* One FBref extract is partial-failure tolerant: every unit was attempted
\* and the extract holds the rows of exactly the units that succeeded.
FbrefExtractTolerant(log, df) ==
    log # <<"unavailable">> =>
        /\ Len(log) = Len(UnitsOf(LeaguesOf("fbref")))
        /\ ExtractSeasons(df) = SucceededSeasons(log, UnitsOf(LeaguesOf("fbref")))

\* C7: when the fetch of a unit fails, each of the three extracts holds the
\* rows of exactly the units that succeeded.  The Understat extract is read
\* where a unit failed: its rows carry the compact code of their season.
C7_ExtractHoldsSucceededUnits ==
    pc = "canonical" =>
        /\ "fbref" \in cfg_ids =>
               /\ FbrefExtractTolerant(fetch_log.fb_team, df_team_stats)
               /\ FbrefExtractTolerant(fetch_log.fb_player, df_player_stats_fb)
        /\ ("understat" \in cfg_ids /\ "fail" \in Range(fetch_log.us)) =>
               {df_player_stats_us.rows[i].season : i \in DOMAIN df_player_stats_us.rows}
                   = {CompactCode(y) :
                         y \in SucceededSeasons(fetch_log.us, UnitsOf(LeaguesOf("understat")))}

\* The part of C7 the code keeps: the two FBref extracts.
FbrefExtractsTolerant ==
    (pc = "canonical" /\ "fbref" \in cfg_ids) =>
        /\ FbrefExtractTolerant(fetch_log.fb_team, df_team_stats)
        /\ FbrefExtractTolerant(fetch_log.fb_player, df_player_stats_fb)

\* C8: a season that does not resolve never raises, and no fact row is
\* written under an empty or null season key.
C8_UnresolvedSeasonExcludedWithoutRaising ==
    /\ raised # "season"
    /\ "player_season_stats" \in DOMAIN files =>
           \A i \in DOMAIN files["player_season_stats"].rows :
               files["player_season_stats"].rows[i].season_id \notin {"", "nan"}

\* C12: a failed write of a table never lets an exception leave the run, and
\* when the run has finished a file exists for every table.
C12_WriteFailureLeavesNoFileMissing ==
    /\ raised # "write"
    /\ pc = "done" => \A t \in Range(TableNames) : t \in DOMAIN files

\* The part of C12 the code keeps: a run that ends without an exception has
\* written a file for every table, a placeholder where to_csv failed.
FinishedRunWroteEveryTable ==
    pc = "done" =>
        /\ raised = "none"
        /\ \A t \in Range(TableNames) :
               t \in DOMAIN files /\ files[t] \in {NoFrame, CsvOf(tables[t])}

\* The transform step of the run has built the catalogs.
Transformed == pc \in {"write_tables", "done"}

\* The names a column of an extract holds.
NamesIn(df, col) == {df.rows[i][col] : i \in DOMAIN df.rows}

\* The names a catalog holds.
CatalogNames(df) == {df.rows[i].name : i \in DOMAIN df.rows}

\* C16: the team (player) catalog holds exactly the names of the FBref
\* extract when that extract yields any, and exactly the names of the
\* Understat extract when it yields none; either way it has the columns of
\* the catalog and ids made of the prefix and the slug of the name.
C16_FallbackOnlyWhenPrimaryEmpty ==
    Transformed =>
        /\ CatalogNames(teams_df) =
               IF IsEmpty(df_team_stats) THEN NamesIn(df_player_stats_us, "team")
               ELSE NamesIn(df_team_stats, "squad")
        /\ CatalogNames(players_df) =
               IF IsEmpty(df_player_stats_fb) THEN NamesIn(df_player_stats_us, "player")
               ELSE NamesIn(df_player_stats_fb, "player")
        /\ teams_df.cols = TeamCols
        /\ players_df.cols = PlayerCols
        /\ \A i \in DOMAIN teams_df.rows :
               teams_df.rows[i].id = _stable_id("TEAM", _slug(teams_df.rows[i].name))
        /\ \A i \in DOMAIN players_df.rows :
               players_df.rows[i].id = _stable_id("PLAYER", _slug(players_df.rows[i].name))

\* C16 witness: FBref yielded teams and no players, and Understat reported
\* two teams and two players: the team catalog is FBref's one team, the
\* player catalog Understat's two players.
C16_Witness ==
    /\ Transformed
    /\ ~IsEmpty(df_team_stats)
    /\ IsEmpty(df_player_stats_fb)
    /\ NamesIn(df_player_stats_us, "team") = {Arsenal, Chelsea}
    /\ CatalogNames(teams_df) = {Arsenal}
    /\ CatalogNames(players_df) = {RaulGarcia, JosePlain}

====
